---- MODULE Spec2Model ----
(***************************************************************************)
(* A model of tsns, the Typesense node-list sidecar.  The repository holds *)
(* two programs with the same shape:                                       *)
(*   "fallback"  : src/main.go             (endpoints, else pod IPs)       *)
(*   "selfaware" : src/unnamed/part_000    (bootstrap seed + self address) *)
(* A text is a sequence of tokens: an IP literal, a decimal port, ":" or   *)
(* ",".  The empty text is << >>.                                          *)
(***************************************************************************)
EXTENDS Integers, Sequences, FiniteSets, TLC

\* ---------------------------------------------------------------- bounds
\* Number of change notifications the orchestration layer sends in a run.
MaxNotifs == 2

\* Number of notifications sent to each of two executions run side by side.
MaxPairNotifs == 1

\* ------------------------------------------------------- program constants
\* flag defaults and the literals of part_000 line 64
DefaultPeerPort == 8107
DefaultApiPort == 8108
SelfPeerPort == 8107
SelfApiPort == 8108

\* the -service flag (its default)
service == "ts"

\* ------------------------------------------------------------ input sets
Variants == {"fallback", "selfaware"}

\* values of -peer-port / -api-port tried
PeerPorts == {DefaultPeerPort, 9107}
ApiPorts == {DefaultApiPort}

Colon == ":"
Comma == ","

\* %d of fmt.Sprintf on the ports that occur
PortStr == (8107 :> "8107") @@ (8108 :> "8108") @@ (9107 :> "9107")
PortTexts == {PortStr[p] : p \in DOMAIN PortStr}

IpSelf == "10.0.0.9"
IpTexts == {"10.0.0.1", "10.0.0.2", "10.0.0.3", "10.0.0.4", IpSelf}

\* what net.InterfaceAddrs can answer: an error, or a list of addresses
\* (kind "ipnet" is *net.IPNet, "ipaddr" any other net.Addr)
Lo4 == [kind |-> "ipnet", ip |-> "127.0.0.1", loopback |-> TRUE, v4 |-> TRUE]
Lo6 == [kind |-> "ipnet", ip |-> "::1", loopback |-> TRUE, v4 |-> FALSE]
Eth6 == [kind |-> "ipnet", ip |-> "fe80::1", loopback |-> FALSE, v4 |-> FALSE]
Eth4 == [kind |-> "ipnet", ip |-> IpSelf, loopback |-> FALSE, v4 |-> TRUE]
InterfaceAnswers ==
  { [ok |-> FALSE, addrs |-> << >>],
    [ok |-> TRUE, addrs |-> <<Lo4, Eth6, Eth4>>],
    [ok |-> TRUE, addrs |-> <<Lo6, Lo4, Eth6>>] }

\* values of INITIAL_NODELIST when it is set
Seeds ==
  { << >>,
    <<"10.0.0.1", Colon, "8107", Colon, "8108">>,
    <<"10.0.0.1", Colon, "8107", Colon, "8108", Comma,
      "10.0.0.2", Colon, "8107", Colon, "8108">> }

\* the environment: INITIAL_NODELIST unset, or set to a seed
Environments ==
  {[present |-> FALSE, value |-> << >>]} \cup {[present |-> TRUE, value |-> s] : s \in Seeds}

\* payloads of a change notification (watch.Event.Type)
EventTypes == {"ADDED", "MODIFIED"}

\* listings the orchestration layer can hold: endpoints objects of the
\* namespace, and the IPs of the pods matching the selector ("" : no IP yet)
EndpointListings ==
  { << >>,
    << [name |-> service, subsets |-> << >>] >>,
    << [name |-> service, subsets |-> << <<"10.0.0.3">> >>] >>,
    << [name |-> "other", subsets |-> << <<"10.0.0.4">> >>],
       [name |-> service, subsets |-> << <<"10.0.0.3", "10.0.0.2">>, <<IpSelf>> >>] >> }

PodListings == { << >>, <<"10.0.0.3">>, <<"10.0.0.3", "">> }

\* answers of the two List calls: an error, or a listing
EndpointAnswers ==
  {[ok |-> FALSE, items |-> << >>]} \cup {[ok |-> TRUE, items |-> l] : l \in EndpointListings}
PodAnswers ==
  {[ok |-> FALSE, items |-> << >>]} \cup {[ok |-> TRUE, items |-> l] : l \in PodListings}

\* outcomes of os.WriteFile: written; the open failed; the write failed
\* after the open truncated the file
WriteOutcomes == {"ok", "open_err", "write_err"}

\* content of the nodes file left by an earlier run
PriorFile == <<"10.0.0.1", Colon, "8107", Colon, "8108">>

\* ----------------------------------------------------------------- state
VARIABLES
  variant,      \* which of the two programs runs
  peerPort,     \* -peer-port
  apiPort,      \* -api-port
  environ,      \* the process environment (INITIAL_NODELIST)
  interfaces,   \* what net.InterfaceAddrs answers on this host
  pc,           \* position of main
  config,       \* main's config   : "unset", "nil" or "ok"
  clients,      \* main's clients  : "unset", "nil" or "ok"
  watcher,      \* main's watcher  : "unset", "nil" or "ok"
  initialNodes, \* main's initialNodes
  bootstrapMode,\* main's bootstrapMode
  thisNode,     \* main's thisNode
  nodes,        \* the result of the cycle's getNodes call
  chan,         \* notifications sent on watcher.ResultChan(), not yet received
  closed,       \* whether the result channel is closed
  file,         \* content of nodesFile
  failed,       \* history: the startup steps that returned an error
  delivered,    \* history: number of notifications sent
  consumed,     \* history: number of notifications received by the loop
  resolverCalls,\* history: number of getNodes calls
  call,         \* history: the last getNodes call
  prevCall,     \* history: the getNodes call before it
  bootWrites,   \* history: number of os.WriteFile calls of the bootstrap
  cycleWrites,  \* history: number of os.WriteFile calls of the loop
  write,        \* history: the last os.WriteFile call
  prevWrite,    \* history: the os.WriteFile call before it
  runs,         \* two executions of the loop, told apart after the same startup
  answers,      \* the answers of the List calls, the same for both executions
  runsClosed    \* whether the result channels of the two executions are closed

\* ------------------------------------------------------------ pure parts

\* a Go string holding an IP: one token, or the empty text
Text(ip) == IF ip = "" THEN << >> ELSE <<ip>>

\* fmt.Sprintf("%s:%d:%d", ip, peer, api)
Sprintf(ip, peer, api) == Text(ip) \o <<Colon, PortStr[peer], Colon, PortStr[api]>>

\* strings.Join(elems, ",")
RECURSIVE Join(_)
Join(elems) ==
  IF Len(elems) = 0 THEN << >>
  ELSE IF Len(elems) = 1 THEN elems[1]
  ELSE elems[1] \o <<Comma>> \o Join(Tail(elems))

\* the loop over s.Addresses
RECURSIVE AddressNodes(_, _, _)
AddressNodes(addresses, peer, api) ==
  IF addresses = << >> THEN << >>
  ELSE <<Sprintf(Head(addresses), peer, api)>> \o AddressNodes(Tail(addresses), peer, api)

\* the loop over e.Subsets
RECURSIVE SubsetNodes(_, _, _)
SubsetNodes(subsets, peer, api) ==
  IF subsets = << >> THEN << >>
  ELSE AddressNodes(Head(subsets), peer, api) \o SubsetNodes(Tail(subsets), peer, api)

\* mutant: the loop over endpoints.Items takes the objects of any name
RECURSIVE EndpointNodesOfAnyName(_, _, _)
EndpointNodesOfAnyName(items, peer, api) ==
  IF items = << >> THEN << >>
  ELSE SubsetNodes(Head(items).subsets, peer, api)
       \o EndpointNodesOfAnyName(Tail(items), peer, api)

\* the loop over endpoints.Items with its name filter
RECURSIVE EndpointNodes(_, _, _)
EndpointNodes(items, peer, api) ==
  IF items = << >> THEN << >>
  ELSE (IF Head(items).name # service THEN << >>
        ELSE SubsetNodes(Head(items).subsets, peer, api))
       \o EndpointNodes(Tail(items), peer, api)

\* the loop over pods.Items
RECURSIVE PodNodes(_, _, _)
PodNodes(podIPs, peer, api) ==
  IF podIPs = << >> THEN << >>
  ELSE <<Sprintf(Head(podIPs), peer, api)>> \o PodNodes(Tail(podIPs), peer, api)

\* getCurrentIP after a successful net.InterfaceAddrs
RECURSIVE FirstRoutableV4(_)
FirstRoutableV4(addrs) ==
  IF addrs = << >> THEN ""
  ELSE IF Head(addrs).kind = "ipnet" /\ ~Head(addrs).loopback /\ Head(addrs).v4
       THEN Head(addrs).ip
       ELSE FirstRoutableV4(Tail(addrs))

\* getCurrentIP, for an answer of net.InterfaceAddrs that is no error
getCurrentIP(answer) == FirstRoutableV4(answer.addrs)

\* os.LookupEnv(bootstrapVar)
LookupEnvValue(e) == IF e.present THEN e.value ELSE << >>

\* mutant: os.Getenv(bootstrapVar) != "" in place of the presence test
LookupEnvNonEmpty(e) == e.present /\ e.value # << >>

LookupEnvOk(e) == e.present

\* thisNode of part_000
ThisNode(ip) == Sprintf(ip, SelfPeerPort, SelfApiPort)

\* mutant: the second element is left out of the join
FlattenFirstOnly(a, b) == Join(<<a>>)

\* strings.Join([]string{a, b}, ",")
Flatten(a, b) == Join(<<a, b>>)

\* mutant: nodes kept across calls (a package-level slice never reset)
getNodesAccumulating(epAnswer, peer, api) ==
  IF ~epAnswer.ok THEN << >>
  ELSE Join((IF nodes = << >> THEN << >> ELSE <<nodes>>)
            \o EndpointNodes(epAnswer.items, peer, api))

\* getNodes of part_000
getNodesSelfaware(epAnswer, peer, api) ==
  IF ~epAnswer.ok THEN << >>
  ELSE Join(EndpointNodes(epAnswer.items, peer, api))

\* mutant: an endpoints error falls through to the pod listing
PodsListedAlsoOnError(epAnswer, peer, api) ==
  Len(EndpointNodes(epAnswer.items, peer, api)) = 0

\* getNodes of main.go: whether it lists the pods, and its result
PodsListed(epAnswer, peer, api) ==
  epAnswer.ok /\ Len(EndpointNodes(epAnswer.items, peer, api)) = 0

getNodesFallback(epAnswer, podAnswer, peer, api) ==
  IF ~epAnswer.ok THEN << >>
  ELSE IF PodsListed(epAnswer, peer, api)
       THEN IF ~podAnswer.ok THEN << >>
            ELSE Join(PodNodes(podAnswer.items, peer, api))
       ELSE Join(EndpointNodes(epAnswer.items, peer, api))

\* mutant: only a MODIFIED event starts a cycle
TriggersIfModified(type) == type = "MODIFIED"

\* whether a received event starts a cycle: the range statement has no loop
\* variable, so the body runs for every event whatever it carries
Triggers(type) == TRUE

\* whether a cycle of the watching loop calls os.WriteFile, and with what
CycleWrites(v, result) == v = "fallback" \/ Len(result) > 0

\* mutant: the self address is not appended
CycleContentWithoutSelf(v, result, self) == result

CycleContent(v, result, self) == IF v = "fallback" THEN result ELSE Flatten(result, self)

\* mutant: the file is opened with O_APPEND in place of O_TRUNC
WriteFileAppending(old, content, outcome) ==
  IF outcome = "ok" THEN old \o content
  ELSE old

\* the file after os.WriteFile(nodesFile, content, 0666) ends with outcome
WriteFile(old, content, outcome) ==
  IF outcome = "ok" THEN content
  ELSE IF outcome = "open_err" THEN old
  ELSE << >>

\* ------------------------------------------------------ state functions
vars ==
  <<variant, peerPort, apiPort, environ, interfaces, pc, config, clients, watcher,
    initialNodes, bootstrapMode, thisNode, nodes, chan, closed, file,
    failed, delivered, consumed, resolverCalls, call, prevCall,
    bootWrites, cycleWrites, write, prevWrite, runs, answers, runsClosed>>

settings == <<variant, peerPort, apiPort, environ, interfaces>>
locals == <<initialNodes, bootstrapMode, thisNode, nodes>>
stream == <<chan, closed, delivered>>
callLog == <<resolverCalls, call, prevCall>>
writeLog == <<bootWrites, cycleWrites, write, prevWrite>>
twin == <<runs, answers, runsClosed>>

\* the history records before any call
NoCall ==
  [endpoints |-> [ok |-> FALSE, items |-> << >>], podsListed |-> FALSE,
   pods |-> [ok |-> FALSE, items |-> << >>], result |-> << >>]
NoWrite == [kind |-> "none", content |-> << >>, outcome |-> "none", cycle |-> 0]

\* the two executions
RunIds == {1, 2}

\* an execution that has not entered the loop: nothing sent, received,
\* resolved or written
NoRun ==
  [at |-> "watching", chan |-> << >>, got |-> << >>, nodes |-> << >>,
   calls |-> 0, writes |-> << >>]

\* main has ended: log.Fatalf, a nil dereference, or its return
Terminal == {"fatal", "panic", "exit"}

Init ==
  /\ variant \in Variants
  /\ peerPort \in PeerPorts
  /\ apiPort \in ApiPorts
  /\ environ \in (IF variant = "selfaware" THEN Environments
                  ELSE {[present |-> FALSE, value |-> << >>]})
  /\ interfaces \in (IF variant = "selfaware" THEN InterfaceAnswers
                     ELSE {[ok |-> TRUE, addrs |-> <<Lo4, Eth6, Eth4>>]})
  /\ pc = "config"
  /\ config = "unset"
  /\ clients = "unset"
  /\ watcher = "unset"
  /\ initialNodes = << >>
  /\ bootstrapMode = FALSE
  /\ thisNode = << >>
  /\ nodes = << >>
  /\ chan = << >>
  /\ closed = FALSE
  /\ file = PriorFile
  /\ failed = {}
  /\ delivered = 0
  /\ consumed = 0
  /\ resolverCalls = 0
  /\ call = NoCall
  /\ prevCall = NoCall
  /\ bootWrites = 0
  /\ cycleWrites = 0
  /\ write = NoWrite
  /\ prevWrite = NoWrite
  /\ runs = [r \in RunIds |-> NoRun]
  /\ answers = << >>
  /\ runsClosed = FALSE

\* ------------------------------------------------------- startup of main

\* mutant: part_000 logs with log.Printf too and goes on
StartupErrorLogged(step, pcNext, valueNext) ==
  /\ failed' = failed \cup {step}
  /\ pc' = pcNext
  /\ valueNext \in {"nil", "ok"}

\* What a startup step that returned an error leaves main with.  part_000
\* calls log.Fatalf.  main.go calls log.Printf and goes on with the value
\* returned beside the error: nil, or a value it can use.
StartupError(step, pcNext, valueNext) ==
  /\ failed' = failed \cup {step}
  /\ IF variant = "selfaware"
     THEN pc' = "fatal" /\ valueNext = "nil"
     ELSE pc' = pcNext /\ valueNext \in {"nil", "ok"}

\* rest.InClusterConfig / clientcmd.BuildConfigFromFlags
BuildConfig ==
  /\ pc = "config"
  /\ \/ pc' = "client" /\ config' = "ok" /\ failed' = failed
     \/ StartupError("config", "client", config')
  /\ UNCHANGED <<twin, settings, locals, stream, clients, watcher, file, consumed, callLog, writeLog>>

\* kubernetes.NewForConfig(config): dereferences config
NewForConfig ==
  /\ pc = "client"
  /\ IF config = "nil"
     THEN pc' = "panic" /\ clients' = clients /\ failed' = failed
     ELSE \/ pc' = "watch" /\ clients' = "ok" /\ failed' = failed
          \/ StartupError("client", "watch", clients')
  /\ UNCHANGED <<twin, settings, locals, stream, config, watcher, file, consumed, callLog, writeLog>>

\* clients.CoreV1().Endpoints(namespace).Watch(...): dereferences clients
Watch ==
  /\ pc = "watch"
  /\ LET next == IF variant = "selfaware" THEN "self" ELSE "watching" IN
     IF clients = "nil"
     THEN pc' = "panic" /\ watcher' = watcher /\ failed' = failed
     ELSE \/ pc' = next /\ watcher' = "ok" /\ failed' = failed
          \/ StartupError("watch", next, watcher')
  /\ UNCHANGED <<twin, settings, locals, stream, config, clients, file, consumed, callLog, writeLog>>

\* part_000 lines 63-64: os.LookupEnv, then thisNode from getCurrentIP,
\* which ends the process when net.InterfaceAddrs fails
ResolveSelf ==
  /\ pc = "self"
  /\ initialNodes' = LookupEnvValue(environ)
  /\ bootstrapMode' = LookupEnvOk(environ)
  /\ IF ~interfaces.ok
     THEN pc' = "fatal" /\ thisNode' = thisNode
     ELSE pc' = "bootstrap" /\ thisNode' = ThisNode(getCurrentIP(interfaces))
  /\ UNCHANGED <<twin, settings, nodes, stream, config, clients, watcher, file, failed,
                 consumed, callLog, writeLog>>

\* history of an os.WriteFile call
Logged(kind, content, outcome) ==
  /\ bootWrites' = bootWrites + (IF kind = "bootstrap" THEN 1 ELSE 0)
  /\ cycleWrites' = cycleWrites + (IF kind = "cycle" THEN 1 ELSE 0)
  /\ prevWrite' = write
  /\ write' = [kind |-> kind, content |-> content, outcome |-> outcome,
               cycle |-> IF kind = "cycle" THEN resolverCalls ELSE 0]

\* part_000 lines 65-74: the bootstrap write, fatal when it fails
Bootstrap ==
  /\ pc = "bootstrap"
  /\ IF bootstrapMode
     THEN \E outcome \in WriteOutcomes :
            LET flattenedNodes == Flatten(initialNodes, thisNode) IN
            /\ file' = WriteFile(file, flattenedNodes, outcome)
            /\ Logged("bootstrap", flattenedNodes, outcome)
            /\ pc' = IF outcome = "ok" THEN "watching" ELSE "fatal"
     ELSE pc' = "watching" /\ file' = file /\ UNCHANGED writeLog
  /\ UNCHANGED <<twin, settings, locals, stream, config, clients, watcher, failed, consumed, callLog>>

\* ------------------------------------------------------ the watching loop

\* mutant: a cycle is started without an event too (a periodic resync)
ReceiveOrPoll ==
  /\ pc = "watching"
  /\ IF watcher = "nil"
     THEN pc' = "panic" /\ chan' = chan /\ consumed' = consumed
     ELSE /\ pc' = "resolve"
          /\ IF chan # << >>
             THEN chan' = Tail(chan) /\ consumed' = consumed + 1
             ELSE ~closed /\ chan' = chan /\ consumed' = consumed
  /\ UNCHANGED <<twin, settings, locals, closed, delivered, config, clients, watcher, file,
                 failed, callLog, writeLog>>

\* mutant: an event is taken as soon as it is there, mid-cycle too
ReceiveMidCycle ==
  /\ pc \in {"watching", "resolve", "write"}
  /\ IF watcher = "nil"
     THEN pc' = "panic" /\ chan' = chan /\ consumed' = consumed
     ELSE /\ chan # << >>
          /\ pc' = "resolve"
          /\ chan' = Tail(chan)
          /\ consumed' = consumed + 1
  /\ UNCHANGED <<twin, settings, locals, closed, delivered, config, clients, watcher, file,
                 failed, callLog, writeLog>>

\* for range watcher.ResultChan(): take the next notification (its payload
\* is dropped); a nil watcher cannot be asked for its channel
Receive ==
  /\ pc = "watching"
  /\ IF watcher = "nil"
     THEN pc' = "panic" /\ chan' = chan /\ consumed' = consumed
     ELSE /\ chan # << >>
          /\ pc' = IF Triggers(Head(chan)) THEN "resolve" ELSE "watching"
          /\ chan' = Tail(chan)
          /\ consumed' = consumed + 1
  /\ UNCHANGED <<twin, settings, locals, closed, delivered, config, clients, watcher, file,
                 failed, callLog, writeLog>>

\* mutant: the loop gives up as soon as no notification is waiting
LoopExitWhenIdle ==
  /\ pc = "watching"
  /\ watcher # "nil"
  /\ chan = << >>
  /\ pc' = "exit"
  /\ UNCHANGED <<twin, settings, locals, stream, config, clients, watcher, file, failed,
                 consumed, callLog, writeLog>>

\* the range loop ends once the channel is closed and drained; main returns
LoopExit ==
  /\ pc = "watching"
  /\ watcher # "nil"
  /\ chan = << >>
  /\ closed
  /\ pc' = "exit"
  /\ UNCHANGED <<twin, settings, locals, stream, config, clients, watcher, file, failed,
                 consumed, callLog, writeLog>>

\* the cycle's getNodes(clients) call, with the answers of the List calls
GetNodes ==
  /\ pc = "resolve"
  /\ \E epAnswer \in EndpointAnswers :
     \E podAnswer \in (IF variant = "fallback" /\ PodsListed(epAnswer, peerPort, apiPort)
                        THEN PodAnswers ELSE {[ok |-> TRUE, items |-> << >>]}) :
       LET listed == variant = "fallback" /\ PodsListed(epAnswer, peerPort, apiPort)
           result == IF variant = "fallback"
                     THEN getNodesFallback(epAnswer, podAnswer, peerPort, apiPort)
                     ELSE getNodesSelfaware(epAnswer, peerPort, apiPort)
       IN /\ nodes' = result
          /\ call' = [endpoints |-> epAnswer, podsListed |-> listed,
                      pods |-> podAnswer, result |-> result]
  /\ prevCall' = call
  /\ resolverCalls' = resolverCalls + 1
  /\ pc' = "write"
  /\ UNCHANGED <<twin, settings, initialNodes, bootstrapMode, thisNode, stream, config, clients,
                 watcher, file, failed, consumed, writeLog>>

\* the rest of the cycle: the write (a failure is logged) and back to the range
WriteNodes ==
  /\ pc = "write"
  /\ IF CycleWrites(variant, nodes)
     THEN \E outcome \in WriteOutcomes :
            LET content == CycleContent(variant, nodes, thisNode) IN
            /\ file' = WriteFile(file, content, outcome)
            /\ Logged("cycle", content, outcome)
     ELSE file' = file /\ UNCHANGED writeLog
  /\ pc' = "watching"
  /\ UNCHANGED <<twin, settings, locals, stream, config, clients, watcher, failed, consumed, callLog>>

\* ------------------------------------------------- the orchestration layer

\* the API server sends a change notification on the established watch
Deliver ==
  /\ watcher = "ok"
  /\ pc \notin Terminal
  /\ ~closed
  /\ delivered < MaxNotifs
  /\ \E type \in EventTypes : chan' = Append(chan, type)
  /\ delivered' = delivered + 1
  /\ UNCHANGED <<twin, settings, locals, closed, pc, config, clients, watcher, file, failed,
                 consumed, callLog, writeLog>>

\* the watch ends (connection drop): the result channel is closed
CloseChan ==
  /\ watcher = "ok"
  /\ pc \notin Terminal
  /\ ~closed
  /\ closed' = TRUE
  /\ UNCHANGED <<twin, settings, locals, chan, delivered, pc, config, clients, watcher, file,
                 failed, consumed, callLog, writeLog>>

\* --------------------------------------------------------- specification
Main ==
  \/ BuildConfig
  \/ NewForConfig
  \/ Watch
  \/ ResolveSelf
  \/ Bootstrap
  \/ Receive
  \/ LoopExit
  \/ GetNodes
  \/ WriteNodes

Next ==
  \/ BuildConfig
  \/ NewForConfig
  \/ Watch
  \/ ResolveSelf
  \/ Bootstrap
  \/ Receive
  \/ LoopExit
  \/ GetNodes
  \/ WriteNodes
  \/ Deliver
  \/ CloseChan

Spec == Init /\ [][Next]_vars

\* main is one goroutine that the Go scheduler keeps running
FairSpec == Spec /\ WF_vars(Main)

\* ----------------------------------------- two executions side by side
\* After one startup (the same configuration, the same self address) the
\* loop is executed twice.  Both executions are sent the same number of
\* notifications, each with payloads of its own, and the n-th getNodes call
\* of one gets the answers that the n-th call of the other gets.  An
\* execution keeps what it handed to os.WriteFile; whether the write
\* succeeded never reaches the loop (the error is only logged).  The
\* executions share nothing but the answers, so they are composed one after
\* the other: the second moves while the first has nothing left to do.

single == <<settings, locals, stream, pc, config, clients, watcher, file, failed,
            consumed, callLog, writeLog>>

\* execution r has handled what it was sent, or has ended
Settled(r) ==
  \/ runs[r].at \in Terminal
  \/ runs[r].at = "watching" /\ runs[r].chan = << >>

\* whether execution r is the one to move
Turn(r) == \A q \in RunIds : q < r => Settled(q)

\* the API server sends one more notification to each execution
DeliverBoth ==
  /\ watcher = "ok"
  /\ pc \notin Terminal
  /\ ~runsClosed
  /\ \A r \in RunIds : Len(runs[r].got) + Len(runs[r].chan) < MaxPairNotifs
  /\ \E types \in [RunIds -> EventTypes] :
       runs' = [r \in RunIds |-> [runs[r] EXCEPT !.chan = Append(@, types[r])]]
  /\ UNCHANGED <<single, answers, runsClosed>>

\* the watch of each execution ends
CloseBoth ==
  /\ watcher = "ok"
  /\ pc \notin Terminal
  /\ ~runsClosed
  /\ runsClosed' = TRUE
  /\ UNCHANGED <<single, runs, answers>>

\* Receive, in execution r
ReceiveIn(r) ==
  /\ Turn(r)
  /\ pc = "watching"
  /\ runs[r].at = "watching"
  /\ IF watcher = "nil"
     THEN runs' = [runs EXCEPT ![r].at = "panic"]
     ELSE /\ runs[r].chan # << >>
          /\ runs' = [runs EXCEPT
               ![r].at = IF Triggers(Head(runs[r].chan)) THEN "resolve" ELSE "watching",
               ![r].chan = Tail(@),
               ![r].got = Append(@, Head(runs[r].chan))]
  /\ UNCHANGED <<single, answers, runsClosed>>

\* LoopExit, in execution r
LoopExitIn(r) ==
  /\ Turn(r)
  /\ pc = "watching"
  /\ runs[r].at = "watching"
  /\ watcher # "nil"
  /\ runs[r].chan = << >>
  /\ runsClosed
  /\ runs' = [runs EXCEPT ![r].at = "exit"]
  /\ UNCHANGED <<single, answers, runsClosed>>

\* GetNodes, in execution r: its n-th call gets the n-th answers
GetNodesIn(r) ==
  /\ runs[r].at = "resolve"
  /\ LET n == runs[r].calls + 1 IN
     \E epAnswer \in EndpointAnswers :
     \E podAnswer \in (IF variant = "fallback" /\ PodsListed(epAnswer, peerPort, apiPort)
                        THEN PodAnswers ELSE {[ok |-> TRUE, items |-> << >>]}) :
       LET given == [endpoints |-> epAnswer, pods |-> podAnswer]
           result == IF variant = "fallback"
                     THEN getNodesFallback(epAnswer, podAnswer, peerPort, apiPort)
                     ELSE getNodesSelfaware(epAnswer, peerPort, apiPort)
       IN /\ IF n <= Len(answers)
             THEN given = answers[n] /\ answers' = answers
             ELSE answers' = Append(answers, given)
          /\ runs' = [runs EXCEPT ![r].at = "write", ![r].calls = n, ![r].nodes = result]
  /\ UNCHANGED <<single, runsClosed>>

\* WriteNodes, in execution r
WriteNodesIn(r) ==
  /\ runs[r].at = "write"
  /\ runs' = [runs EXCEPT
       ![r].at = "watching",
       ![r].writes = IF CycleWrites(variant, runs[r].nodes)
                     THEN Append(@, CycleContent(variant, runs[r].nodes, thisNode))
                     ELSE @]
  /\ UNCHANGED <<single, answers, runsClosed>>

PairNext ==
  \/ BuildConfig
  \/ NewForConfig
  \/ Watch
  \/ ResolveSelf
  \/ Bootstrap
  \/ DeliverBoth
  \/ CloseBoth
  \/ \E r \in RunIds : ReceiveIn(r)
  \/ \E r \in RunIds : LoopExitIn(r)
  \/ \E r \in RunIds : GetNodesIn(r)
  \/ \E r \in RunIds : WriteNodesIn(r)

PairSpec == Init /\ [][PairNext]_vars

\* ------------------------------------------------- reading a written file

\* the texts between the occurrences of sep, as strings.Split gives them
RECURSIVE SplitOn(_, _)
SplitOn(text, sep) ==
  IF \A i \in DOMAIN text : text[i] # sep THEN <<text>>
  ELSE LET i == CHOOSE k \in DOMAIN text :
                  text[k] = sep /\ \A j \in 1..(k - 1) : text[j] # sep
       IN <<SubSeq(text, 1, i - 1)>> \o SplitOn(SubSeq(text, i + 1, Len(text)), sep)

\* the entries of a comma-joined list
Entries(text) == SplitOn(text, Comma)

\* host:port:port with a non-empty host
ValidEntry(e) ==
  /\ Len(e) = 5
  /\ e[1] \notin {Colon, Comma}
  /\ e[2] = Colon
  /\ e[3] \in PortTexts
  /\ e[4] = Colon
  /\ e[5] \in PortTexts

ValidList(text) == \A i \in DOMAIN Entries(text) : ValidEntry(Entries(text)[i])

\* the entry ends with the configured ports
HasConfiguredPorts(e) ==
  /\ Len(e) >= 4
  /\ SubSeq(e, Len(e) - 3, Len(e)) = <<Colon, PortStr[peerPort], Colon, PortStr[apiPort]>>

\* main is inside the range loop
InLoop == pc \in {"watching", "resolve", "write"}

\* ---------------------------------------------------------------- claims

\* C1: in the watching loop, a cycle whose Membership Resolver result is
\* empty does not invoke the Output Writer, and the file after the cycle is
\* the file before it.
C1_EmptyResultSkipsWrite ==
  [][(pc = "write" /\ Len(nodes) = 0) =>
       (file' = file /\ cycleWrites' = cycleWrites)]_vars

\* C2: with INITIAL_NODELIST set, the bootstrap write happens exactly once
\* per run, no write of the loop comes before it, and what it writes has
\* the self address as an entry.
C2_BootstrapOnceFirstWithSelf ==
  (variant = "selfaware" /\ environ.present) =>
    /\ bootWrites <= 1
    /\ (InLoop \/ pc = "exit") => bootWrites = 1
    /\ cycleWrites > 0 => bootWrites = 1
    /\ (bootWrites = 1 /\ cycleWrites = 0) =>
         /\ write.kind = "bootstrap"
         /\ \E i \in DOMAIN Entries(write.content) : Entries(write.content)[i] = thisNode

C2_Witness ==
  /\ variant = "selfaware"
  /\ environ.present
  /\ bootWrites = 1
  /\ cycleWrites = 1
  /\ prevWrite.kind = "bootstrap"
  /\ write.kind = "cycle"

\* C3: when no non-loopback IPv4 interface address is found, the process
\* ends at startup: no bootstrap write and no write of the loop is made
\* with an empty self IP (a self entry ":peerPort:apiPort").
C3_NoWriteWithEmptySelf ==
  (variant = "selfaware" /\ bootWrites + cycleWrites > 0) =>
    (thisNode # << >> /\ Head(thisNode) # Colon)

HasReadyAddress(items) ==
  \E i \in DOMAIN items :
    /\ items[i].name = service
    /\ \E j \in DOMAIN items[i].subsets : Len(items[i].subsets[j]) > 0

\* ip:peerPort:apiPort for each listed pod, in order
PodEntries(podIPs) ==
  [i \in DOMAIN podIPs |->
     (IF podIPs[i] = "" THEN << >> ELSE <<podIPs[i]>>)
       \o <<Colon, PortStr[peerPort], Colon, PortStr[apiPort]>>]

\* the entries of a resolver result (none for the empty result)
ResultEntries(text) == IF text = << >> THEN << >> ELSE Entries(text)

\* C5: the resolver with pod fallback lists the pods in a cycle exactly when
\* the endpoint listing succeeded and held no address of the service; with
\* an address it never lists them, and with none its result is the
\* formatted IPs of the pods the listing returned.
C5_PodFallbackIffNoEndpoints ==
  (variant = "fallback" /\ resolverCalls > 0) =>
    /\ call.podsListed <=> (call.endpoints.ok /\ ~HasReadyAddress(call.endpoints.items))
    /\ (call.endpoints.ok /\ HasReadyAddress(call.endpoints.items)) =>
         (~call.podsListed /\ call.result # << >>)
    /\ call.podsListed => ResultEntries(call.result) = PodEntries(call.pods.items)

C5_Witness ==
  /\ variant = "fallback"
  /\ resolverCalls = 2
  /\ prevCall.endpoints.ok /\ HasReadyAddress(prevCall.endpoints.items)
  /\ call.podsListed /\ call.pods.ok /\ Len(call.pods.items) = 2

\* C6: after any write, bootstrap or of the loop, the file is a comma-joined
\* list of host:port:port entries with a non-empty host (stated here for the
\* writes that succeeded, the case most favourable to the claim).
C6_WrittenFileIsValidList ==
  write.outcome = "ok" => ValidList(file)

\* C7: every entry the reconciler formats into the file (all entries of a
\* write of the loop, the self entry of the bootstrap write) carries the
\* configured peerPort and apiPort.
C7_EntriesCarryConfiguredPorts ==
  LET es == ResultEntries(write.content) IN
  /\ write.kind = "cycle" => \A i \in DOMAIN es : HasConfiguredPorts(es[i])
  /\ write.kind = "bootstrap" => HasConfiguredPorts(es[Len(es)])

\* main is past the bootstrap block of part_000
PastBootstrap == InLoop \/ pc = "exit"

\* C8: the bootstrap is entered exactly when INITIAL_NODELIST is set (even
\* to the empty text); then exactly one write is made, and the file is the
\* seed, a comma and the self address; when it is unset no write happens
\* before the first notification is received.
C8_BootstrapIffSeedPresent ==
  variant = "selfaware" =>
    /\ bootWrites > 0 => environ.present
    /\ (PastBootstrap /\ environ.present) =>
         /\ bootWrites = 1
         /\ cycleWrites = 0 => file = environ.value \o <<Comma>> \o thisNode
    /\ (pc = "fatal" /\ failed = {} /\ interfaces.ok) =>
         (environ.present /\ bootWrites = 1 /\ write.outcome # "ok")
    /\ (PastBootstrap /\ ~environ.present) =>
         /\ bootWrites = 0
         /\ consumed = 0 => (cycleWrites = 0 /\ file = PriorFile)

C8_Witness ==
  /\ variant = "selfaware"
  /\ environ.present /\ environ.value = << >>
  /\ pc = "watching"
  /\ bootWrites = 1
  /\ file = <<Comma>> \o thisNode

\* C9 (safety part): in the self-aware loop every received notification is
\* followed by exactly one resolver call, and after a cycle whose result R
\* is not empty the Output Writer was called, and when it succeeded the
\* file is R, a comma and the self address.
C9_CycleWritesResultAndSelf ==
  variant = "selfaware" =>
    /\ resolverCalls = consumed - (IF pc = "resolve" THEN 1 ELSE 0)
    /\ (pc \in {"watching", "resolve", "exit"} /\ resolverCalls > 0 /\ call.result # << >>) =>
         /\ write.kind = "cycle"
         /\ write.cycle = resolverCalls
         /\ write.outcome = "ok" => file = call.result \o <<Comma>> \o thisNode

\* C9 (liveness part): once main is in the loop, the k-th notification sent
\* on the stream is eventually processed by a complete cycle.
C9_EveryNotificationProcessed ==
  \A k \in 1..MaxNotifs :
    (variant = "selfaware" /\ InLoop /\ delivered >= k)
      ~> (resolverCalls >= k /\ pc # "write")

\* C9: both parts, under the fairness of the loop.
C9_NotificationsAreProcessed ==
  /\ []C9_CycleWritesResultAndSelf
  /\ C9_EveryNotificationProcessed

C9_Witness ==
  /\ variant = "selfaware"
  /\ pc = "watching"
  /\ delivered = 2 /\ consumed = 2 /\ resolverCalls = 2
  /\ call.result # << >>
  /\ write.outcome = "ok"
  /\ file = call.result \o <<Comma>> \o thisNode

\* the last two getNodes calls got the same answers, none of them an error
SameAnswers ==
  /\ call.endpoints.ok
  /\ prevCall.endpoints = call.endpoints
  /\ call.podsListed => (call.pods.ok /\ prevCall.pods = call.pods)

\* C10: two successive cycles whose List calls succeeded with the same
\* answers hand the same bytes to the Output Writer (and the second writes
\* exactly when the first did).
C10_SameListingSameWrite ==
  (resolverCalls >= 2 /\ pc # "write" /\ SameAnswers) =>
    /\ write.cycle = resolverCalls =>
         (prevWrite.cycle = resolverCalls - 1 /\ prevWrite.content = write.content)
    /\ write.cycle # resolverCalls => write.cycle # resolverCalls - 1

C10_Witness ==
  /\ resolverCalls = 2
  /\ pc = "watching"
  /\ SameAnswers
  /\ write.cycle = 2
  /\ prevWrite.cycle = 1
  /\ write.content # << >>
  /\ prevWrite.content = write.content

\* no text occurs at two places of the sequence
NoDuplicates(es) == \A i, j \in DOMAIN es : i # j => es[i] # es[j]

\* C11: provided the listing of the cycle names each address once (so the
\* resolver's result has no entry twice), no entry occurs twice in a written
\* file content, also when the own address is among the ready endpoints.
C11_WrittenListHasNoDuplicates ==
  (write.kind # "none"
     /\ (write.kind = "cycle" =>
           (write.cycle = resolverCalls /\ NoDuplicates(ResultEntries(call.result))))) =>
    NoDuplicates(ResultEntries(write.content))

\* a step in which os.WriteFile was called and returned an error
WriteFails ==
  /\ bootWrites' + cycleWrites' = bootWrites + cycleWrites + 1
  /\ write'.outcome # "ok"

\* C12: a failed write of the nodes file is never fatal: after it the
\* process still runs, the file is what it was before the write, and main
\* is back waiting for the next notification.
C12_WriteFailureIsNotFatal ==
  [][WriteFails => (pc' = "watching" /\ file' = file)]_vars

\* a List call of the last getNodes call returned an error
ListFailed(c) == ~c.endpoints.ok \/ (c.podsListed /\ ~c.pods.ok)

\* C13: when the endpoint listing or the pod listing fails, the resolution
\* ends at that call (after an endpoints error the pods are not listed), the
\* result is empty, the cycle leaves the file as it is, the process does not
\* end and main goes back to wait for the next notification.
C13_ListFailureSkipsCycle ==
  /\ []((resolverCalls > 0 /\ ListFailed(call)) =>
          /\ call.result = << >>
          /\ ~call.endpoints.ok => ~call.podsListed
          /\ pc \notin {"fatal", "panic"})
  /\ [][(pc = "write" /\ ListFailed(call)) =>
          (pc' = "watching" /\ file' = file /\ UNCHANGED writeLog)]_vars

C15_ClosedChannelEndsLoop ==
  /\ [](pc = "exit" =>
          (closed /\ chan = << >> /\ consumed = delivered /\ resolverCalls = consumed))
  /\ [][pc = "exit" => UNCHANGED <<pc, watcher, file, consumed, callLog, writeLog>>]_vars

C15_Witness ==
  /\ pc = "exit"
  /\ closed
  /\ consumed = 2
  /\ write.kind = "cycle" /\ write.outcome = "ok"
  /\ file = write.content

\* the text a is the beginning of the text b
IsPrefix(a, b) == Len(a) <= Len(b) /\ SubSeq(b, 1, Len(a)) = a

\* C16: a notification only triggers a cycle, its payload is never read.
\* Of two executions with the same configuration and self address that are
\* sent as many notifications, with payloads of their own, and get the same
\* List answers: each makes one getNodes call per notification received,
\* what one handed to os.WriteFile is always the beginning of what the other
\* handed to it, and once both have handled all they were sent the two
\* sequences of writes are the same.
C16_PayloadIsOnlyATrigger ==
  /\ \A r \in RunIds :
       runs[r].calls = Len(runs[r].got) - (IF runs[r].at = "resolve" THEN 1 ELSE 0)
  /\ \/ IsPrefix(runs[1].writes, runs[2].writes)
     \/ IsPrefix(runs[2].writes, runs[1].writes)
  /\ (Settled(1) /\ Settled(2)) => runs[1].writes = runs[2].writes

C16_Witness ==
  /\ Settled(1) /\ Settled(2)
  /\ Len(runs[1].got) = MaxPairNotifs
  /\ \A i \in DOMAIN runs[1].got : runs[1].got[i] # runs[2].got[i]
  /\ Len(runs[1].writes) = MaxPairNotifs
  /\ runs[2].writes = runs[1].writes

\* a step that takes a notification from the stream
Takes == consumed' = consumed + 1

\* a step that calls os.WriteFile
Writes == bootWrites' + cycleWrites' > bootWrites + cycleWrites

\* C17: one sequential writer.  A notification is taken only at the range
\* statement, when the cycle of every notification taken before is over (its
\* getNodes call made, its write made or skipped); a step makes at most one
\* os.WriteFile call, made by main at the bootstrap or at the end of a
\* cycle; the bootstrap write is made before any notification is taken; and
\* a notification that arrives meanwhile waits in the channel: its arrival
\* changes nothing of main.
C17_OneSequentialWriter ==
  /\ [][Takes => (pc = "watching" /\ pc' = "resolve" /\ resolverCalls = consumed
                    /\ write.cycle <= resolverCalls /\ ~Writes)]_vars
  /\ [][Writes => /\ bootWrites' + cycleWrites' = bootWrites + cycleWrites + 1
                  /\ pc \in {"bootstrap", "write"}
                  /\ pc' \in {"watching", "fatal"}
                  /\ ~Takes /\ UNCHANGED callLog
                  /\ (pc = "bootstrap") = (bootWrites' = bootWrites + 1)
                  /\ (pc = "bootstrap") => (consumed = 0 /\ cycleWrites = 0)
                  /\ (pc = "write") => write'.cycle = consumed]_vars
  /\ [][delivered' # delivered =>
          (chan' = Append(chan, chan'[Len(chan')])
             /\ UNCHANGED <<pc, file, nodes, consumed, callLog, writeLog>>)]_vars

C17_Witness ==
  /\ pc = "write"
  /\ consumed = 1 /\ resolverCalls = 1
  /\ write.kind = "bootstrap"
  /\ Len(chan) = 1
  /\ delivered = 2

\* no notification waits in the channel and none is being handled
Silent == pc = "watching" /\ chan = << >>

\* C18: no reconciliation without a notification.  The getNodes calls are
\* as many as the notifications taken (one less while the call for the last
\* one is about to be made), the os.WriteFile calls are at most that many
\* plus the one of the bootstrap, the file changes only in the bootstrap
\* and at the end of the cycle of a notification taken, and while no
\* notification is pending main calls nothing and the file stays as it is.
C18_NoCycleWithoutNotification ==
  /\ [](/\ resolverCalls = consumed - (IF pc = "resolve" THEN 1 ELSE 0)
        /\ cycleWrites <= resolverCalls
        /\ bootWrites <= 1
        /\ bootWrites + cycleWrites <= consumed + 1)
  /\ [][file' # file =>
          \/ pc = "bootstrap"
          \/ pc = "write" /\ consumed > 0 /\ resolverCalls = consumed
               /\ cycleWrites' = cycleWrites + 1]_vars
  /\ [][Silent => (file' = file /\ UNCHANGED <<callLog, writeLog>>)]_vars

C18_Witness ==
  /\ Silent
  /\ ~closed
  /\ consumed = 2 /\ resolverCalls = 2
  /\ bootWrites + cycleWrites = 3
  /\ file = write.content

\* the addresses listed under the service's name: <<object, subset, address>>
Listed(items) ==
  {t \in (DOMAIN items) \X (1..3) \X (1..3) :
     /\ items[t[1]].name = service
     /\ t[2] \in DOMAIN items[t[1]].subsets
     /\ t[3] \in DOMAIN items[t[1]].subsets[t[2]]}

\* u comes before t: an earlier object, else subset, else address
ListedBefore(u, t) ==
  \/ u[1] < t[1]
  \/ u[1] = t[1] /\ u[2] < t[2]
  \/ u[1] = t[1] /\ u[2] = t[2] /\ u[3] < t[3]

\* C19: when the endpoints were listed and the pods were not asked for, the
\* result of getNodes has one entry per address listed under the service's
\* name and no other entry, and the entry of an address stands after the
\* entries of all addresses listed before it (subset order, then address
\* order): it is that address with the configured ports.
C19_OnlyTheServiceInListedOrder ==
  (resolverCalls > 0 /\ call.endpoints.ok /\ ~call.podsListed) =>
    LET items == call.endpoints.items
        es == ResultEntries(call.result)
    IN /\ Len(es) = Cardinality(Listed(items))
       /\ \A t \in Listed(items) :
            LET n == Cardinality({u \in Listed(items) : ListedBefore(u, t)}) + 1 IN
            es[n] = <<items[t[1]].subsets[t[2]][t[3]],
                      Colon, PortStr[peerPort], Colon, PortStr[apiPort]>>

C19_Witness ==
  /\ resolverCalls > 0
  /\ pc = "watching"
  /\ call.endpoints.ok
  /\ \E t \in Listed(call.endpoints.items) : t[3] = 2
  /\ \E i \in DOMAIN call.endpoints.items : call.endpoints.items[i].name # service
  /\ \E t \in Listed(call.endpoints.items) : t[2] = 2
  /\ Len(ResultEntries(call.result)) = Cardinality(Listed(call.endpoints.items))

\* e is an entry of the comma-joined list
IsEntryOf(e, text) == \E i \in DOMAIN Entries(text) : Entries(text)[i] = e

\* the last entry of the comma-joined list
LastEntry(text) == Entries(text)[Len(Entries(text))]

\* a step that is a successful os.WriteFile call of the loop
CycleWriteDone == cycleWrites' = cycleWrites + 1 /\ write'.outcome = "ok"

\* C20: a successful write of the loop replaces the file.  After it the file
\* is what the cycle's getNodes result and the self address make (in
\* part_000 the result, a comma and the self address; in main.go the
\* result), whatever the file held before: an entry of the bootstrap seed
\* that is neither in the result nor the self address is not in the file.
\* The self address is set once at startup, and in part_000 it is the last
\* entry of the bootstrap write and of every write of the loop.
C20_WriteReplacesTheFile ==
  /\ [][CycleWriteDone =>
          /\ file' = (IF variant = "selfaware"
                      THEN call.result \o <<Comma>> \o thisNode ELSE call.result)
          /\ \A i \in DOMAIN Entries(initialNodes) :
               LET e == Entries(initialNodes)[i] IN
               (~IsEntryOf(e, call.result) /\ e # thisNode) => ~IsEntryOf(e, file')]_vars
  /\ [][pc \notin {"config", "client", "watch", "self"} => thisNode' = thisNode]_vars
  /\ []((variant = "selfaware" /\ write.kind # "none") =>
          /\ LastEntry(write.content) = thisNode
          /\ prevWrite.kind # "none" => LastEntry(prevWrite.content) = thisNode)

C20_Witness ==
  LET seeded == <<"10.0.0.1", Colon, "8107", Colon, "8108">> IN
  /\ variant = "selfaware"
  /\ pc = "watching"
  /\ IsEntryOf(seeded, initialNodes)
  /\ prevWrite.kind = "bootstrap" /\ prevWrite.outcome = "ok"
  /\ IsEntryOf(seeded, prevWrite.content)
  /\ write.kind = "cycle" /\ write.outcome = "ok"
  /\ file = write.content
  /\ ~IsEntryOf(seeded, file)
  /\ LastEntry(file) = thisNode

====
